---- MODULE Spec2Model ----
(***************************************************************************)
(* Model of the viral-genome-cataloger core (src/viral_cataloger/          *)
(* pipeline.py): the similarity graph builder load_ani_edges, the greedy   *)
(* star clustering engine greedy_star_clustering and the driver            *)
(* run_pipeline.                                                           *)
(*                                                                         *)
(* Two runs of the program over the same input are carried side by side    *)
(* (Runs), so that statements relating two runs (determinism, threshold    *)
(* monotonicity) are state predicates.                                     *)
(***************************************************************************)
EXTENDS Integers, Sequences, FiniteSets, TLC

(***************************************************************************)
(* Bounds of the model.                                                    *)
(***************************************************************************)
\* sequence lengths range over 1..MaxLen
MaxLen == 3
\* total number of neighbour entries of a hand-made adjacency mapping
MaxEntries == 2
\* number of rows the edge file holds at most
MaxRows == 2
\* number of records a FASTA file of the input directory holds at most
MaxRecords == 2

\* load_ani_edges reads the first NumFields fields of a row
NumFields == 6

(***************************************************************************)
(* Sequence identifiers.  Python compares str lexicographically; the       *)
(* identifiers of the model are single letters and IdOrder lists them in   *)
(* that order.  "z" never is a key of the length mapping.                  *)
(***************************************************************************)
Ids == {"a", "b", "c"}
Outside == "z"
AllIds == Ids \cup {Outside}
IdOrder == <<"a", "b", "c", "z">>
Runs == {1, 2}

\* The texts a numeric field of a row holds: the numerals of FloatOf, which
\* float() parses to the number given, and NotANumber, which float() rejects
\* with ValueError.  "1.00" and "2.00" are the numerals format_skani_output
\* writes; hand-made rows hold the numerals of RowNumerals.  Thresholds take
\* the values of ThrVals.
FloatOf == [n \in {"1", "2", "1.00", "2.00"} |-> IF n \in {"1", "1.00"} THEN 1 ELSE 2]
Numerals == DOMAIN FloatOf
RowNumerals == {"1", "2"}
NotANumber == "x"
FieldTexts == RowNumerals \cup {NotANumber}
ThrVals == {1, 2}

VARIABLES
    inputDir,     \* the FASTA files of input_dir: file name -> its records
    missingTools, \* the external tools shutil.which does not find
    stage,        \* position of run_pipeline
    raised,       \* the exception run_pipeline raised to its caller
    written,      \* the files written in output_dir
    combined,     \* the records of all_genomes.fa
    lengths,      \* seq_lengths: identifier -> length
    thr,          \* per run: <<min_ani, min_qcov, min_tcov>>
    hashOrder,    \* per run: the order in which a set of str is iterated
    edgeKeys,     \* per run: the keys of edges in insertion order
    nread,        \* number of rows of the edge file read so far
    taken,        \* per run: the branch each row read so far took in the loop
    qualifying,   \* history: per run and pair of identifiers, the number of
                  \* rows read so far that name the pair and qualify
    edges,        \* per run: the adjacency mapping, identifier -> neighbour list
    pc,           \* position of the program
    run,          \* the run whose clustering is in progress
    seqsSorted,   \* per run: the list seqs_sorted
    pos,          \* per run: index of the for loop over seqs_sorted
    unassigned,   \* per run: the set unassigned
    clusters,     \* per run: the dict clusters, as its items in insertion order
    fastaLines,   \* parse_fasta: the lines of the file, each a list of characters
    lineNo,       \* parse_fasta: number of lines read so far
    seqId,        \* parse_fasta: seq_id, NoId standing for None
    seqChunks,    \* parse_fasta: seq_chunks
    yielded,      \* parse_fasta: the pairs yielded so far
    rawLines,     \* format_skani_output: the lines of the input, each the list
                  \* of its whitespace-separated fields
    rawPos,       \* format_skani_output: number of lines read so far
    formatted,    \* format_skani_output: the rows written so far
    clusterTable, \* write_clusters: the lines written
    repIds        \* write_representative_ids: the lines written

vars == <<inputDir, missingTools, stage, raised, written, combined, lengths, thr, hashOrder, edgeKeys, nread, taken, qualifying, edges,
          pc, run, seqsSorted, pos, unassigned, clusters,
          fastaLines, lineNo, seqId, seqChunks, yielded,
          rawLines, rawPos, formatted, clusterTable, repIds>>

\* the state of run_pipeline around perform_clustering
driver == <<inputDir, missingTools, stage, raised, written, combined>>
\* what load_ani_edges reads and never writes, and what it writes
inputs == <<lengths, thr, hashOrder>>
loader == <<edgeKeys, nread, taken, qualifying>>
\* the locals of greedy_star_clustering
clustering == <<seqsSorted, pos, unassigned, clusters>>
\* the file and the locals of parse_fasta
reader == <<fastaLines, lineNo, seqId, seqChunks, yielded>>
\* the input, the position and the output of format_skani_output
normalizer == <<rawLines, rawPos, formatted>>
\* the output of write_clusters and write_representative_ids
writers == <<clusterTable, repIds>>
texts == <<reader, normalizer, writers>>

\* seq_id: Optional[str] = None
NoId == <<"None">>

\* parse_fasta, format_skani_output and the writers have not been called
TextsIdle ==
    /\ fastaLines = <<>>
    /\ lineNo = 0
    /\ seqId = NoId
    /\ seqChunks = <<>>
    /\ yielded = <<>>
    /\ rawLines = <<>>
    /\ rawPos = 0
    /\ formatted = <<>>
    /\ clusterTable = <<>>
    /\ repIds = <<>>

(***************************************************************************)
(* Helpers on sequences.                                                   *)
(***************************************************************************)
Range(s) == {s[i] : i \in 1..Len(s)}

Count(s, x) == Cardinality({i \in 1..Len(s) : s[i] = x})

IdRank(x) == CHOOSE i \in 1..Len(IdOrder) : IdOrder[i] = x

\* str.__lt__ on identifiers
IdLess(x, y) == IdRank(x) < IdRank(y)

\* the sort key (-seq_lengths[seq], seq), compared as Python compares tuples
KeyLess(x, y) ==
    \/ lengths[x] > lengths[y]
    \/ lengths[x] = lengths[y] /\ IdLess(x, y)

\* list.insert keeping the sort stable: x goes before the first element
\* whose key is strictly greater than the key of x
RECURSIVE InsertByKey(_, _)
InsertByKey(s, x) ==
    IF s = <<>> THEN <<x>>
    ELSE IF KeyLess(x, Head(s)) THEN <<x>> \o s
    ELSE <<Head(s)>> \o InsertByKey(Tail(s), x)

\* sorted(s, key=lambda seq: (-seq_lengths[seq], seq)): a stable sort
RECURSIVE SortedByKey(_)
SortedByKey(s) ==
    IF s = <<>> THEN <<>>
    ELSE InsertByKey(SortedByKey(SubSeq(s, 1, Len(s) - 1)), s[Len(s)])

\* the keys of seq_lengths in some order; sorted() does not depend on it
\* because the key is a total order on distinct identifiers
RECURSIVE SetToSeq(_)
SetToSeq(S) ==
    IF S = {} THEN <<>>
    ELSE LET x == CHOOSE y \in S : \A w \in S : ~ IdLess(w, y)
         IN <<x>> \o SetToSeq(S \ {x})

(***************************************************************************)
(* load_ani_edges.  A row is the list parts = line.strip().split().  Both  *)
(* runs read the same file, row by row.                                    *)
(***************************************************************************)
\* valid_set = set(valid_ids), the keys of seq_lengths
ValidSet == DOMAIN lengths

\* float(text) raises ValueError
RaisesValueError(text) == text \notin Numerals

\* RowBranch with the comparisons turned round (<= for >=)
RowBranchInverted(r, parts) ==
    IF Len(parts) < NumFields THEN "short"
    ELSE IF parts[1] = parts[2] \/ parts[1] \notin ValidSet \/ parts[2] \notin ValidSet
         THEN "skipped"
    ELSE IF \E i \in 1..3 : RaisesValueError(parts[3 + i]) THEN "valueerror"
    ELSE IF \A i \in 1..3 : FloatOf[parts[3 + i]] <= thr[r][i] THEN "edge"
    ELSE "below"

\* RowBranch with strict comparisons (> for >=)
RowBranchStrict(r, parts) ==
    IF Len(parts) < NumFields THEN "short"
    ELSE IF parts[1] = parts[2] \/ parts[1] \notin ValidSet \/ parts[2] \notin ValidSet
         THEN "skipped"
    ELSE IF \E i \in 1..3 : RaisesValueError(parts[3 + i]) THEN "valueerror"
    ELSE IF \A i \in 1..3 : FloatOf[parts[3 + i]] > thr[r][i] THEN "edge"
    ELSE "below"

\* RowBranch with a field float() rejects taken as passing its threshold
RowBranchLenient(r, parts) ==
    IF Len(parts) < NumFields THEN "short"
    ELSE IF parts[1] = parts[2] \/ parts[1] \notin ValidSet \/ parts[2] \notin ValidSet
         THEN "skipped"
    ELSE IF \A i \in 1..3 : \/ RaisesValueError(parts[3 + i])
                             \/ FloatOf[parts[3 + i]] >= thr[r][i]
         THEN "edge"
    ELSE "below"

\* the way one row takes through the body of the for loop, in run r
RowBranch(r, parts) ==
    IF Len(parts) < NumFields THEN "short"
    ELSE LET qname == parts[1]
             tname == parts[2]
             ani   == parts[4]
             qcov  == parts[5]
             tcov  == parts[6]
         IN IF qname = tname \/ qname \notin ValidSet \/ tname \notin ValidSet
            THEN "skipped"
            ELSE IF RaisesValueError(ani) THEN "valueerror"
            ELSE IF ~ (FloatOf[ani] >= thr[r][1]) THEN "below"
            ELSE IF RaisesValueError(qcov) THEN "valueerror"
            ELSE IF ~ (FloatOf[qcov] >= thr[r][2]) THEN "below"
            ELSE IF RaisesValueError(tcov) THEN "valueerror"
            ELSE IF ~ (FloatOf[tcov] >= thr[r][3]) THEN "below"
            ELSE "edge"

\* The unordered pairs of identifiers, and whether a row names the pair p
\* and qualifies under the thresholds of run r: it has the fields qname,
\* tname, marker, identity, query coverage and target coverage, the three
\* numbers parse, and each is at least its threshold.
Pairs == {P \in SUBSET Ids : Cardinality(P) = 2}

Qualifies(r, parts, p) ==
    /\ Len(parts) >= NumFields
    /\ {parts[1], parts[2]} = p
    /\ \A i \in 1..3 : /\ parts[3 + i] \in Numerals
                        /\ FloatOf[parts[3 + i]] >= thr[r][i]

\* edges[qname].append(tname); edges[tname].append(qname)
AddEdge(e, qname, tname) ==
    LET e1 == [e EXCEPT ![qname] = Append(@, tname)]
    IN [e1 EXCEPT ![tname] = Append(@, qname)]

\* AfterRow with only qname checked against valid_set: the neighbour is
\* appended to the list of qname before the lookup of tname fails
AfterRowQnameOnly(r, parts) ==
    IF /\ Len(parts) >= NumFields
       /\ parts[1] # parts[2]
       /\ parts[1] \in ValidSet
       /\ \A i \in 1..3 : /\ parts[3 + i] \in Numerals
                           /\ FloatOf[parts[3 + i]] >= thr[r][i]
    THEN IF parts[2] \in ValidSet
         THEN [edges[r] EXCEPT ![parts[1]] = Append(@, parts[2]),
                               ![parts[2]] = Append(@, parts[1])]
         ELSE [edges[r] EXCEPT ![parts[1]] = Append(@, parts[2])]
    ELSE edges[r]

\* the adjacency mapping of run r after the row
AfterRow(r, parts) ==
    IF RowBranch(r, parts) = "edge"
    THEN AddEdge(edges[r], parts[1], parts[2])
    ELSE edges[r]

\* the elements of the list s that are in U, in the order of s
RECURSIVE Filter(_, _)
Filter(s, U) ==
    IF s = <<>> THEN <<>>
    ELSE IF Head(s) \in U THEN <<Head(s)>> \o Filter(Tail(s), U)
    ELSE Filter(Tail(s), U)

\* valid_set = set(valid_ids); edges = {seq_id: [] for seq_id in valid_set}
BeginLoad ==
    /\ pc = "start"
    /\ pc' = "load"
    /\ edges' = [r \in Runs |-> [s \in ValidSet |-> <<>>]]
    /\ edgeKeys' = [r \in Runs |-> Filter(hashOrder[r], ValidSet)]
    /\ UNCHANGED <<texts, driver, inputs, nread, taken, qualifying, run, clustering>>

\* one iteration of the for loop over the lines of the file
LoadRow(parts) ==
    /\ pc = "load"
    /\ nread < MaxRows
    /\ nread' = nread + 1
    /\ taken' = [r \in Runs |-> Append(taken[r], RowBranch(r, parts))]
    /\ qualifying' = [r \in Runs |-> [p \in Pairs |->
                        qualifying[r][p] + (IF Qualifies(r, parts, p) THEN 1 ELSE 0)]]
    /\ edges' = [r \in Runs |-> AfterRow(r, parts)]
    /\ UNCHANGED <<texts, driver, inputs, edgeKeys, pc, run, clustering>>

\* the file is exhausted: return edges
EndOfFile ==
    /\ pc = "load"
    /\ pc' = "loaded"
    /\ UNCHANGED <<texts, driver, inputs, loader, edges, run, clustering>>

(***************************************************************************)
(* greedy_star_clustering                                                  *)
(***************************************************************************)
\* seqs_sorted built from the set of identifiers as the run iterates it,
\* sorted by length alone: ties keep the iteration order of the set
RECURSIVE InsertByLength(_, _)
InsertByLength(s, x) ==
    IF s = <<>> THEN <<x>>
    ELSE IF lengths[x] > lengths[Head(s)] THEN <<x>> \o s
    ELSE <<Head(s)>> \o InsertByLength(Tail(s), x)

RECURSIVE SortedByLength(_)
SortedByLength(s) ==
    IF s = <<>> THEN <<>>
    ELSE InsertByLength(SortedByLength(SubSeq(s, 1, Len(s) - 1)), s[Len(s)])

SeqsSortedByLength(r) == SortedByLength(Filter(hashOrder[r], DOMAIN lengths))

\* seqs_sorted, for run r
SeqsSorted(r) == SortedByKey(SetToSeq(DOMAIN lengths))

\* edges.get(seq_id, [])
EdgesGet(r, s) == IF s \in DOMAIN edges[r] THEN edges[r][s] ELSE <<>>

\* the concatenation of the neighbour lists of the identifiers of s
RECURSIVE NeighborsOfAll(_, _)
NeighborsOfAll(r, s) ==
    IF s = <<>> THEN <<>>
    ELSE EdgesGet(r, Head(s)) \o NeighborsOfAll(r, Tail(s))

\* NeighborList sorted by identifier alone
NeighborListById(r, s, U) == SetToSeq(Range(Filter(EdgesGet(r, s), U)))

\* NeighborList without the sort: the neighbours in the order of the list
NeighborListUnsorted(r, s, U) == Filter(EdgesGet(r, s), U)

\* NeighborList that also visits the neighbours of the neighbours
NeighborListTransitive(r, s, U) ==
    SortedByKey(Filter(EdgesGet(r, s) \o NeighborsOfAll(r, EdgesGet(r, s)), U))

\* neighbor_list of representative s when the set unassigned is U:
\* sorted(neighbor for neighbor in edges.get(seq_id, []) if neighbor in unassigned)
NeighborList(r, s, U) == SortedByKey(Filter(EdgesGet(r, s), U))

\* ClaimNeighbors leaving the loop after the first neighbour
ClaimNeighborsFirstOnly(nl, members, U) ==
    IF nl = <<>> THEN <<members, U>>
    ELSE <<Append(members, Head(nl)), U \ {Head(nl)}>>

\* ClaimNeighbors without the test "if neighbor in unassigned"
RECURSIVE ClaimNeighborsUnchecked(_, _, _)
ClaimNeighborsUnchecked(nl, members, U) ==
    IF nl = <<>> THEN <<members, U>>
    ELSE ClaimNeighborsUnchecked(Tail(nl), Append(members, Head(nl)), U \ {Head(nl)})

\* the loop over neighbor_list: the pair <<cluster_members, unassigned>>
RECURSIVE ClaimNeighbors(_, _, _)
ClaimNeighbors(nl, members, U) ==
    IF nl = <<>> THEN <<members, U>>
    ELSE IF Head(nl) \in U
         THEN ClaimNeighbors(Tail(nl), Append(members, Head(nl)), U \ {Head(nl)})
         ELSE ClaimNeighbors(Tail(nl), members, U)

\* DictSet that records a cluster only when it has a member besides its
\* representative
DictSetDroppingSingletons(d, k, v) ==
    IF Len(v) <= 1 THEN d ELSE Append(d, <<k, v>>)

\* clusters[k] = v on a dict kept as its items in insertion order
DictSet(d, k, v) ==
    IF \E i \in 1..Len(d) : d[i][1] = k
    THEN [i \in 1..Len(d) |-> IF d[i][1] = k THEN <<k, v>> ELSE d[i]]
    ELSE Append(d, <<k, v>>)

\* seqs_sorted = sorted(...); unassigned = set(seqs_sorted); clusters = {}
StartClustering ==
    /\ pc = "loaded"
    /\ pc' = "cluster"
    /\ seqsSorted' = [seqsSorted EXCEPT ![run] = SeqsSorted(run)]
    /\ pos' = [pos EXCEPT ![run] = 1]
    /\ unassigned' = [unassigned EXCEPT ![run] = Range(SeqsSorted(run))]
    /\ clusters' = [clusters EXCEPT ![run] = <<>>]
    /\ UNCHANGED <<texts, driver, inputs, loader, edges, run>>

\* one iteration of the for loop: seq_id was already claimed, continue
SkipAssigned ==
    /\ pc = "cluster"
    /\ pos[run] <= Len(seqsSorted[run])
    /\ seqsSorted[run][pos[run]] \notin unassigned[run]
    /\ pos' = [pos EXCEPT ![run] = @ + 1]
    /\ UNCHANGED <<texts, driver, inputs, loader, edges, pc, run, seqsSorted, unassigned, clusters>>

\* one iteration of the for loop: seq_id becomes a representative
FormCluster ==
    /\ pc = "cluster"
    /\ pos[run] <= Len(seqsSorted[run])
    /\ LET seq == seqsSorted[run][pos[run]]
           U1  == unassigned[run] \ {seq}
           res == ClaimNeighbors(NeighborList(run, seq, U1), <<seq>>, U1)
       IN /\ seq \in unassigned[run]
          /\ unassigned' = [unassigned EXCEPT ![run] = res[2]]
          /\ clusters' = [clusters EXCEPT ![run] = DictSet(@, seq, res[1])]
    /\ pos' = [pos EXCEPT ![run] = @ + 1]
    /\ UNCHANGED <<texts, driver, inputs, loader, edges, pc, run, seqsSorted>>

\* the for loop is exhausted: return clusters
ReturnClusters ==
    /\ pc = "cluster"
    /\ pos[run] > Len(seqsSorted[run])
    /\ pc' = "done"
    /\ UNCHANGED <<texts, driver, inputs, loader, edges, run, seqsSorted, pos, unassigned, clusters>>

(***************************************************************************)
(* Inputs of greedy_star_clustering called on its own: any length mapping  *)
(* over a subset of Ids and any adjacency mapping with at most MaxEntries  *)
(* neighbour entries (duplicates, self entries, missing keys and           *)
(* identifiers outside the length mapping included).                       *)
(***************************************************************************)
LengthMaps == UNION {[V -> 1..MaxLen] : V \in SUBSET Ids}

EntryLists(K) == UNION {[1..n -> K \X AllIds] : n \in 0..MaxEntries}

RECURSIVE Project(_, _)
Project(flat, k) ==
    IF flat = <<>> THEN <<>>
    ELSE IF Head(flat)[1] = k THEN <<Head(flat)[2]>> \o Project(Tail(flat), k)
    ELSE Project(Tail(flat), k)

AdjacencyOf(K, flat) == [k \in K |-> Project(flat, k)]

InitCluster ==
    /\ TextsIdle
    /\ inputDir = <<>>
    /\ missingTools = {}
    /\ stage = "direct"
    /\ raised = "none"
    /\ written = {}
    /\ combined = <<>>
    /\ lengths \in LengthMaps
    /\ \E K \in SUBSET Ids : \E flat \in EntryLists(K) :
          /\ edges = [r \in Runs |-> AdjacencyOf(K, flat)]
          /\ edgeKeys = [r \in Runs |-> Filter(IdOrder, K)]
    /\ thr = [r \in Runs |-> <<1, 1, 1>>]
    /\ hashOrder = [r \in Runs |-> IdOrder]
    /\ nread = 0
    /\ taken = [r \in Runs |-> <<>>]
    /\ qualifying = [r \in Runs |-> [p \in Pairs |-> 0]]
    /\ pc = "loaded"
    /\ run = 1
    /\ seqsSorted = [r \in Runs |-> <<>>]
    /\ pos = [r \in Runs |-> 1]
    /\ unassigned = [r \in Runs |-> {}]
    /\ clusters = [r \in Runs |-> <<>>]

NextCluster == StartClustering \/ SkipAssigned \/ FormCluster \/ ReturnClusters

SpecCluster == InitCluster /\ [][NextCluster]_vars

\* the second run starts: perform_clustering calls greedy_star_clustering
NextRun ==
    /\ pc = "done"
    /\ run = 1
    /\ run' = 2
    /\ pc' = "loaded"
    /\ UNCHANGED <<texts, driver, inputs, loader, edges, seqsSorted, pos, unassigned, clusters>>

(***************************************************************************)
(* Inputs of load_ani_edges on its own: rows of NumFields - 1, NumFields   *)
(* and NumFields + 1 fields naming any two identifiers, with any field     *)
(* texts, under two threshold settings of which the second is at least the *)
(* first.                                                                  *)
(***************************************************************************)
LoadKeySets == {Ids, Ids \ {"c"}}

Thresholds == ThrVals \X ThrVals \X ThrVals

Raised(lo, hi) == \A i \in 1..3 : lo[i] <= hi[i]

\* the identifiers a row names: pairs of the vertex set in both
\* orientations, a self comparison, and pairs with an outside identifier
NamePairs == {<<"a", "b">>, <<"b", "a">>, <<"a", "c">>, <<"c", "b">>,
              <<"a", "a">>, <<"a", "z">>, <<"z", "b">>}

AllRows ==
    {<<n[1], n[2], "1", f[1], f[2]>> :
        n \in NamePairs, f \in FieldTexts \X FieldTexts}
    \cup {<<n[1], n[2], "1", f[1], f[2], f[3]>> :
        n \in NamePairs, f \in FieldTexts \X FieldTexts \X FieldTexts}
    \cup {<<n[1], n[2], "1", f[1], f[2], f[3], "+">> :
        n \in NamePairs, f \in RowNumerals \X RowNumerals \X RowNumerals}

LoadAnyRow == \E parts \in AllRows : LoadRow(parts)

InitLoad ==
    /\ TextsIdle
    /\ inputDir = <<>>
    /\ missingTools = {}
    /\ stage = "direct"
    /\ raised = "none"
    /\ written = {}
    /\ combined = <<>>
    /\ lengths \in UNION {[V -> {1}] : V \in LoadKeySets}
    /\ thr \in {t \in [Runs -> Thresholds] : Raised(t[1], t[2])}
    /\ hashOrder = [r \in Runs |-> IdOrder]
    /\ edgeKeys = [r \in Runs |-> <<>>]
    /\ nread = 0
    /\ taken = [r \in Runs |-> <<>>]
    /\ qualifying = [r \in Runs |-> [p \in Pairs |-> 0]]
    /\ edges = [r \in Runs |-> <<>>]
    /\ pc = "start"
    /\ run = 1
    /\ seqsSorted = [r \in Runs |-> <<>>]
    /\ pos = [r \in Runs |-> 1]
    /\ unassigned = [r \in Runs |-> {}]
    /\ clusters = [r \in Runs |-> <<>>]

NextLoad == BeginLoad \/ LoadAnyRow \/ EndOfFile

SpecLoad == InitLoad /\ [][NextLoad]_vars

(***************************************************************************)
(* perform_clustering run twice on the same sequences and the same edge    *)
(* file of well-formed rows between sequences of the file: load_ani_edges, *)
(* then greedy_star_clustering.  As run_pipeline does, the runs set        *)
(* min_qcov to the lowest value and choose min_ani and min_tcov.           *)
(***************************************************************************)
HashOrders == {IdOrder, <<"z", "c", "b", "a">>}

PipeThresholds == {t \in Thresholds : t[2] = 1 /\ t[1] = t[3]}

PlainRows ==
    {<<p[1], p[2], "1", n, "1", n>> :
        p \in {<<"a", "b">>, <<"c", "b">>, <<"a", "c">>}, n \in RowNumerals}

LoadPlainRow == \E parts \in PlainRows : LoadRow(parts)

InitPipe ==
    /\ TextsIdle
    /\ inputDir = <<>>
    /\ missingTools = {}
    /\ stage = "direct"
    /\ raised = "none"
    /\ written = {}
    /\ combined = <<>>
    /\ lengths \in [Ids -> 1..MaxLen]
    /\ thr \in {t \in [Runs -> PipeThresholds] : Raised(t[1], t[2])}
    /\ hashOrder \in [Runs -> HashOrders]
    /\ edgeKeys = [r \in Runs |-> <<>>]
    /\ nread = 0
    /\ taken = [r \in Runs |-> <<>>]
    /\ qualifying = [r \in Runs |-> [p \in Pairs |-> 0]]
    /\ edges = [r \in Runs |-> <<>>]
    /\ pc = "start"
    /\ run = 1
    /\ seqsSorted = [r \in Runs |-> <<>>]
    /\ pos = [r \in Runs |-> 1]
    /\ unassigned = [r \in Runs |-> {}]
    /\ clusters = [r \in Runs |-> <<>>]

NextPipe ==
    \/ BeginLoad \/ LoadPlainRow \/ EndOfFile
    \/ StartClustering \/ SkipAssigned \/ FormCluster \/ ReturnClusters
    \/ NextRun

SpecPipe == InitPipe /\ [][NextPipe]_vars

(***************************************************************************)
(* run_pipeline.  The external tools skani and seqkit succeed or exit      *)
(* with an error; perform_clustering runs read_fasta_lengths, then         *)
(* load_ani_edges and greedy_star_clustering as above, then write_clusters.*)
(***************************************************************************)
FileNames == {"g1.fa", "g2.fna"}
NameOrder == <<"g1.fa", "g2.fna">>

\* the records the files hold: <<identifier, sequence length>>; "a" comes
\* in two lengths
Records == {<<"a", MaxLen>>, <<"a", 1>>, <<"b", 1>>, <<"c", 1>>}

FastaContents == UNION {[1..n -> Records] : n \in 0..MaxRecords}

\* sorted({path for pattern in patterns for path in input_dir.glob(pattern)})
FastaFiles == Filter(NameOrder, DOMAIN inputDir)

\* the concatenation of the files, in the order of fasta_files
RECURSIVE ConcatFiles(_)
ConcatFiles(files) ==
    IF files = <<>> THEN <<>>
    ELSE inputDir[Head(files)] \o ConcatFiles(Tail(files))

\* {seq_id: len(seq) for seq_id, seq in parse_fasta(path)}: the last record
\* of an identifier wins
ReadFastaLengths(records) ==
    [s \in {records[i][1] : i \in 1..Len(records)} |->
        records[CHOOSE i \in 1..Len(records) :
                    /\ records[i][1] = s
                    /\ \A j \in (i + 1)..Len(records) : records[j][1] # s][2]]

\* check_external_dependencies
CheckExternalDependencies ==
    /\ stage = "deps"
    /\ IF missingTools # {}
       THEN raised' = "RuntimeError" /\ stage' = "failed"
       ELSE raised' = raised /\ stage' = "aggregate"
    /\ UNCHANGED <<texts, inputDir, missingTools, written, combined,
                   inputs, loader, edges, pc, run, clustering>>

\* aggregate_fastas
AggregateFastas ==
    /\ stage = "aggregate"
    /\ IF FastaFiles = <<>>
       THEN /\ raised' = "FileNotFoundError"
            /\ stage' = "failed"
            /\ UNCHANGED <<written, combined>>
       ELSE /\ combined' = ConcatFiles(FastaFiles)
            /\ written' = written \cup {"all_genomes.fa"}
            /\ stage' = "skani"
            /\ raised' = raised
    /\ UNCHANGED <<texts, inputDir, missingTools, inputs, loader, edges, pc, run, clustering>>

\* run_command(skani_command, ...): the tool exits with 0 or with an error
RunSkani ==
    /\ stage = "skani"
    /\ \E ok \in BOOLEAN :
          IF ok
          THEN /\ written' = written \cup {"skani_results.txt"}
               /\ stage' = "format"
               /\ raised' = raised
          ELSE /\ raised' = "RuntimeError"
               /\ stage' = "failed"
               /\ written' = written
    /\ UNCHANGED <<texts, inputDir, missingTools, combined,
                   inputs, loader, edges, pc, run, clustering>>

\* format_skani_output
FormatSkaniOutput ==
    /\ stage = "format"
    /\ written' = written \cup {"ani_formatted.txt"}
    /\ stage' = "clustering"
    /\ UNCHANGED <<texts, inputDir, missingTools, raised, combined,
                   inputs, loader, edges, pc, run, clustering>>

\* perform_clustering: seq_lengths = read_fasta_lengths(params.fna)
ReadLengths ==
    /\ stage = "clustering"
    /\ pc = "idle"
    /\ lengths' = ReadFastaLengths(combined)
    /\ pc' = "start"
    /\ UNCHANGED <<texts, driver, thr, hashOrder, loader, edges, run, clustering>>

\* the line write_clusters writes first, as its tab-separated fields
TableHeader == <<"representative", "members">>

\* the lines write_clusters writes: the header, then for each item of the
\* dict the representative and the member list (joined with commas in the
\* file)
TableLines(cl) ==
    <<TableHeader>> \o [i \in 1..Len(cl) |-> <<cl[i][1], cl[i][2]>>]

\* RepLines writing the representatives in the order of their identifiers
RepLinesById(cl) == SetToSeq({cl[i][1] : i \in 1..Len(cl)})

\* the lines write_representative_ids writes: "for rep_id in clusters"
RepLines(cl) == [i \in 1..Len(cl) |-> cl[i][1]]

\* perform_clustering: write_clusters(params.out, clusters)
WriteClusters ==
    /\ stage = "clustering"
    /\ pc = "done"
    /\ written' = written \cup {"catalog_clusters.tsv"}
    /\ clusterTable' = TableLines(clusters[run])
    /\ stage' = "reps"
    /\ UNCHANGED <<reader, normalizer, repIds, inputDir, missingTools, raised, combined,
                   inputs, loader, edges, pc, run, clustering>>

\* write_representative_ids
WriteRepresentativeIds ==
    /\ stage = "reps"
    /\ written' = written \cup {"representative_ids.txt"}
    /\ repIds' = RepLines(clusters[run])
    /\ stage' = "seqkit"
    /\ UNCHANGED <<reader, normalizer, clusterTable, inputDir, missingTools, raised, combined,
                   inputs, loader, edges, pc, run, clustering>>

\* run_command(seqkit_command, ...): the tool exits with 0 or with an error
RunSeqkit ==
    /\ stage = "seqkit"
    /\ \E ok \in BOOLEAN :
          IF ok
          THEN /\ written' = written \cup {"catalog_vOTU_catalog.fasta"}
               /\ stage' = "count"
               /\ raised' = raised
          ELSE /\ raised' = "RuntimeError"
               /\ stage' = "failed"
               /\ written' = written
    /\ UNCHANGED <<texts, inputDir, missingTools, combined,
                   inputs, loader, edges, pc, run, clustering>>

\* count_fasta_records and the end of run_pipeline
CountFastaRecords ==
    /\ stage = "count"
    /\ stage' = "finished"
    /\ UNCHANGED <<texts, inputDir, missingTools, raised, written, combined,
                   inputs, loader, edges, pc, run, clustering>>

InitRun ==
    /\ TextsIdle
    /\ inputDir \in UNION {[F -> FastaContents] : F \in SUBSET FileNames}
    /\ missingTools \in SUBSET {"skani", "seqkit"}
    /\ stage = "deps"
    /\ raised = "none"
    /\ written = {}
    /\ combined = <<>>
    /\ lengths = <<>>
    /\ thr = [r \in Runs |-> <<1, 1, 1>>]
    /\ hashOrder = [r \in Runs |-> IdOrder]
    /\ edgeKeys = [r \in Runs |-> <<>>]
    /\ nread = 0
    /\ taken = [r \in Runs |-> <<>>]
    /\ qualifying = [r \in Runs |-> [p \in Pairs |-> 0]]
    /\ edges = [r \in Runs |-> <<>>]
    /\ pc = "idle"
    /\ run = 1
    /\ seqsSorted = [r \in Runs |-> <<>>]
    /\ pos = [r \in Runs |-> 1]
    /\ unassigned = [r \in Runs |-> {}]
    /\ clusters = [r \in Runs |-> <<>>]

NextRunPipeline ==
    \/ CheckExternalDependencies \/ AggregateFastas \/ RunSkani
    \/ FormatSkaniOutput \/ ReadLengths
    \/ BeginLoad \/ LoadPlainRow \/ EndOfFile
    \/ StartClustering \/ SkipAssigned \/ FormCluster \/ ReturnClusters
    \/ WriteClusters \/ WriteRepresentativeIds \/ RunSeqkit \/ CountFastaRecords

SpecRun == InitRun /\ [][NextRunPipeline]_vars

(***************************************************************************)
(* greedy_star_clustering called twice on the same lengths and on two      *)
(* adjacency mappings with the same neighbours per vertex: the second has  *)
(* every list of the first reversed, doubled, or both.                     *)
(***************************************************************************)
AdjacencyMaps == {AdjacencyOf(Ids, flat) : flat \in EntryLists(Ids)}

RECURSIVE Reverse(_)
Reverse(l) == IF l = <<>> THEN <<>> ELSE Reverse(Tail(l)) \o <<Head(l)>>

\* e with its rows read in the opposite order, with every row read twice,
\* and with the rows read once more in the opposite order
VariantMaps(e) ==
    { [k \in DOMAIN e |-> Reverse(e[k])],
      [k \in DOMAIN e |-> e[k] \o e[k]],
      [k \in DOMAIN e |-> Reverse(e[k]) \o e[k]] }

InitParallel ==
    /\ TextsIdle
    /\ inputDir = <<>>
    /\ missingTools = {}
    /\ stage = "direct"
    /\ raised = "none"
    /\ written = {}
    /\ combined = <<>>
    /\ lengths \in [Ids -> {1, MaxLen}]
    /\ \E e \in AdjacencyMaps : \E f \in VariantMaps(e) :
          /\ edges = <<e, f>>
          /\ edgeKeys = [r \in Runs |-> Filter(IdOrder, DOMAIN e)]
    /\ thr = [r \in Runs |-> <<1, 1, 1>>]
    /\ hashOrder = [r \in Runs |-> IdOrder]
    /\ nread = 0
    /\ taken = [r \in Runs |-> <<>>]
    /\ qualifying = [r \in Runs |-> [p \in Pairs |-> 0]]
    /\ pc = "loaded"
    /\ run = 1
    /\ seqsSorted = [r \in Runs |-> <<>>]
    /\ pos = [r \in Runs |-> 1]
    /\ unassigned = [r \in Runs |-> {}]
    /\ clusters = [r \in Runs |-> <<>>]

NextParallel ==
    \/ StartClustering \/ SkipAssigned \/ FormCluster \/ ReturnClusters
    \/ NextRun

SpecParallel == InitParallel /\ [][NextParallel]_vars

(***************************************************************************)
(* perform_clustering followed by write_representative_ids, as the last    *)
(* steps of run_pipeline, on sequences of any lengths and an edge file of  *)
(* well-formed rows.                                                       *)
(***************************************************************************)
InitWrite ==
    /\ TextsIdle
    /\ inputDir = <<>>
    /\ missingTools = {}
    /\ stage = "clustering"
    /\ raised = "none"
    /\ written = {}
    /\ combined = <<>>
    /\ lengths \in [Ids -> 1..MaxLen]
    /\ thr = [r \in Runs |-> <<1, 1, 1>>]
    /\ hashOrder = [r \in Runs |-> IdOrder]
    /\ edgeKeys = [r \in Runs |-> <<>>]
    /\ nread = 0
    /\ taken = [r \in Runs |-> <<>>]
    /\ qualifying = [r \in Runs |-> [p \in Pairs |-> 0]]
    /\ edges = [r \in Runs |-> <<>>]
    /\ pc = "start"
    /\ run = 1
    /\ seqsSorted = [r \in Runs |-> <<>>]
    /\ pos = [r \in Runs |-> 1]
    /\ unassigned = [r \in Runs |-> {}]
    /\ clusters = [r \in Runs |-> <<>>]

NextWrite ==
    \/ BeginLoad \/ LoadPlainRow \/ EndOfFile
    \/ StartClustering \/ SkipAssigned \/ FormCluster \/ ReturnClusters
    \/ WriteClusters \/ WriteRepresentativeIds

SpecWrite == InitWrite /\ [][NextWrite]_vars

(***************************************************************************)
(* parse_fasta and read_fasta_lengths.  A line is the list of its          *)
(* characters without the line terminator; " " stands for any whitespace   *)
(* character.  The generator is run line by line to its end.               *)
(***************************************************************************)
\* number of lines a FASTA file holds at most
MaxFileLines == 3

Space == " "
Marker == ">"

\* str.lstrip(), str.rstrip() and str.strip()
RECURSIVE LStrip(_)
LStrip(line) ==
    IF line # <<>> /\ Head(line) = Space THEN LStrip(Tail(line)) ELSE line

RECURSIVE RStrip(_)
RStrip(line) ==
    IF line # <<>> /\ line[Len(line)] = Space
    THEN RStrip(SubSeq(line, 1, Len(line) - 1))
    ELSE line

Strip(line) == RStrip(LStrip(line))

\* line.split()[0] of a stripped line that is not empty
RECURSIVE FirstToken(_)
FirstToken(line) ==
    IF line = <<>> \/ Head(line) = Space THEN <<>>
    ELSE <<Head(line)>> \o FirstToken(Tail(line))

\* "".join(seq_chunks)
RECURSIVE Join(_)
Join(chunks) == IF chunks = <<>> THEN <<>> ELSE Head(chunks) \o Join(Tail(chunks))

\* HeaderId taking the whole line after the marker, description included
HeaderIdWholeLine(line) == Tail(line)

\* seq_id = line.split()[0][1:]
HeaderId(line) == Tail(FirstToken(line))

\* "if seq_id is not None: yield seq_id, ''.join(seq_chunks)"
YieldPending ==
    IF seqId # NoId THEN Append(yielded, <<seqId, Join(seqChunks)>>) ELSE yielded

\* the state of all that parse_fasta does not touch
PipelineIdle ==
    /\ inputDir = <<>>
    /\ missingTools = {}
    /\ stage = "direct"
    /\ raised = "none"
    /\ written = {}
    /\ combined = <<>>
    /\ thr = [r \in Runs |-> <<1, 1, 1>>]
    /\ hashOrder = [r \in Runs |-> IdOrder]
    /\ edgeKeys = [r \in Runs |-> <<>>]
    /\ nread = 0
    /\ taken = [r \in Runs |-> <<>>]
    /\ qualifying = [r \in Runs |-> [p \in Pairs |-> 0]]
    /\ edges = [r \in Runs |-> <<>>]
    /\ run = 1
    /\ seqsSorted = [r \in Runs |-> <<>>]
    /\ pos = [r \in Runs |-> 1]
    /\ unassigned = [r \in Runs |-> {}]
    /\ clusters = [r \in Runs |-> <<>>]

pipeline == <<driver, thr, hashOrder, loader, edges, run, clustering>>

\* one iteration of "for line in handle"
ParseLine ==
    /\ pc = "parse"
    /\ lineNo < Len(fastaLines)
    /\ lineNo' = lineNo + 1
    /\ LET line == Strip(fastaLines[lineNo + 1])
       IN IF line = <<>>
          THEN UNCHANGED <<seqId, seqChunks, yielded>>
          ELSE IF Head(line) = Marker
          THEN /\ yielded' = YieldPending
               /\ seqId' = HeaderId(line)
               /\ seqChunks' = <<>>
          ELSE /\ seqChunks' = Append(seqChunks, line)
               /\ UNCHANGED <<seqId, yielded>>
    /\ UNCHANGED <<pipeline, lengths, pc, fastaLines, normalizer, writers>>

\* the file is exhausted: the pending record is yielded
EndOfFasta ==
    /\ pc = "parse"
    /\ lineNo = Len(fastaLines)
    /\ yielded' = YieldPending
    /\ pc' = "parsed"
    /\ UNCHANGED <<pipeline, lengths, fastaLines, lineNo, seqId, seqChunks,
                   normalizer, writers>>

\* read_fasta_lengths: {seq_id: len(seq) for seq_id, seq in parse_fasta(path)}
CollectLengths ==
    /\ pc = "parsed"
    /\ lengths' = ReadFastaLengths([i \in 1..Len(yielded) |->
                                        <<yielded[i][1], Len(yielded[i][2])>>])
    /\ pc' = "lengths"
    /\ UNCHANGED <<pipeline, texts>>

\* the lines of the files: blank lines, marker lines (bare, indented, with
\* a description, with whitespace after the marker) and sequence lines
\* (with whitespace before, inside and after)
SampleLines ==
    { <<>>, <<" ">>,
      <<">", "a">>, <<">", "b">>, <<" ", ">", "a">>, <<">">>,
      <<">", " ", "a">>, <<">", "a", " ", "x">>,
      <<"A">>, <<"A", "C">>, <<"C", " ">>, <<"A", " ", "C">>, <<" ", "A">> }

FastaTexts == UNION {[1..n -> SampleLines] : n \in 0..MaxFileLines}

InitFasta ==
    /\ PipelineIdle
    /\ lengths = <<>>
    /\ pc = "parse"
    /\ fastaLines \in FastaTexts
    /\ lineNo = 0
    /\ seqId = NoId
    /\ seqChunks = <<>>
    /\ yielded = <<>>
    /\ rawLines = <<>>
    /\ rawPos = 0
    /\ formatted = <<>>
    /\ clusterTable = <<>>
    /\ repIds = <<>>

NextFasta == ParseLine \/ EndOfFasta \/ CollectLengths

SpecFasta == InitFasta /\ [][NextFasta]_vars

(***************************************************************************)
(* format_skani_output.  A line is the list parts = line.strip().split().  *)
(* The numbers of the raw file are counted in units of 0.00001, so that    *)
(* the digits the two-decimal format drops are there.                      *)
(***************************************************************************)
\* number of rows the raw file holds at most after its first line
MaxRawRows == 2

\* format_skani_output reads the first NumRawFields fields of a row
NumRawFields == 5

\* one, and one hundredth, in units of 0.00001
Unit == 100000
Hundredth == 1000

\* float() on the numeric texts of the raw file, in units of 0.00001;
\* float() raises ValueError on any other text
RawFloatOf ==
    [n \in {"1.00", "1.996", "2.00", "2.004",
            "0.0100", "0.01996", "0.0200", "0.02004"} |->
        CASE n = "1.00" -> 100000
          [] n = "1.996" -> 199600
          [] n = "2.00" -> 200000
          [] n = "2.004" -> 200400
          [] n = "0.0100" -> 1000
          [] n = "0.01996" -> 1996
          [] n = "0.0200" -> 2000
          [] n = "0.02004" -> 2004]

\* the value rounded to the nearest hundredth, in hundredths (no value of
\* the model lies half way between two hundredths)
RoundedHundredths(v) == (v + Hundredth \div 2) \div Hundredth

\* the text of k hundredths with two decimal digits
TwoDecimals == [h \in {100, 200} |-> IF h = 100 THEN "1.00" ELSE "2.00"]

\* f"{value:.2f}"
FormatF2(v) == TwoDecimals[RoundedHundredths(v)]

\* FormattedRow that asks for six fields where the code asks for five
FormattedRowNeedingSix(parts) ==
    IF Len(parts) < NumRawFields + 1 THEN <<>>
    ELSE IF \E i \in 3..5 : parts[i] \notin DOMAIN RawFloatOf THEN <<>>
    ELSE << <<parts[1], parts[2], "1",
              FormatF2(RawFloatOf[parts[3]]),
              FormatF2(RawFloatOf[parts[4]] * 100),
              FormatF2(RawFloatOf[parts[5]] * 100)>> >>

\* FormattedRow with the two coverage columns exchanged
FormattedRowSwapped(parts) ==
    IF Len(parts) < NumRawFields THEN <<>>
    ELSE IF \E i \in 3..5 : parts[i] \notin DOMAIN RawFloatOf THEN <<>>
    ELSE << <<parts[1], parts[2], "1",
              FormatF2(RawFloatOf[parts[3]]),
              FormatF2(RawFloatOf[parts[5]] * 100),
              FormatF2(RawFloatOf[parts[4]] * 100)>> >>

\* what the body of the for loop writes for one line: no row or one row
FormattedRow(parts) ==
    IF Len(parts) < NumRawFields THEN <<>>
    ELSE LET qname == parts[1]
             tname == parts[2]
             ani   == parts[3]
             qcov  == parts[4]
             tcov  == parts[5]
         IN IF \/ ani \notin DOMAIN RawFloatOf
               \/ qcov \notin DOMAIN RawFloatOf
               \/ tcov \notin DOMAIN RawFloatOf
            THEN <<>>
            ELSE LET ani_val  == RawFloatOf[ani]
                     qcov_val == RawFloatOf[qcov] * 100
                     tcov_val == RawFloatOf[tcov] * 100
                 IN << <<qname, tname, "1",
                         FormatF2(ani_val), FormatF2(qcov_val), FormatF2(tcov_val)>> >>

\* header = infile.readline(); if not header: return
ReadHeader ==
    /\ pc = "format"
    /\ rawPos = 0
    /\ IF rawLines = <<>>
       THEN pc' = "formatted" /\ rawPos' = rawPos
       ELSE pc' = pc /\ rawPos' = 1
    /\ UNCHANGED <<pipeline, lengths, reader, rawLines, formatted, writers>>

\* one iteration of "for line in infile"
FormatLine ==
    /\ pc = "format"
    /\ rawPos >= 1
    /\ rawPos < Len(rawLines)
    /\ rawPos' = rawPos + 1
    /\ formatted' = formatted \o FormattedRow(rawLines[rawPos + 1])
    /\ UNCHANGED <<pipeline, lengths, pc, reader, rawLines, writers>>

\* the input is exhausted
EndOfRaw ==
    /\ pc = "format"
    /\ rawPos >= 1
    /\ rawPos = Len(rawLines)
    /\ pc' = "formatted"
    /\ UNCHANGED <<pipeline, lengths, reader, normalizer, writers>>

\* identity and the two fractions of a row: triples that parse, on and off
\* the hundredths, and triples with a text float() rejects
RawTriples ==
    { <<"1.00", "0.0100", "0.0100">>, <<"2.00", "0.0200", "0.0200">>,
      <<"1.996", "0.01996", "0.02004">>, <<"2.004", "0.0100", "0.01996">>,
      <<"x", "0.0100", "0.0100">>, <<"1.00", "x", "0.0100">>,
      <<"2.00", "0.0200", "x">> }

RawNames == {<<"a", "b">>, <<"c", "b">>}

\* rows of five fields, rows with the two further fields skani writes, rows
\* of four fields and the blank line
RawRows ==
    {<<n[1], n[2], f[1], f[2], f[3]>> : n \in RawNames, f \in RawTriples}
    \cup {<<n[1], n[2], f[1], f[2], f[3], "r", "q">> :
            n \in RawNames, f \in {<<"2.00", "0.0200", "0.0200">>, <<"x", "0.0100", "0.0100">>}}
    \cup {<<n[1], n[2], "1.00", "0.0100">> : n \in RawNames}
    \cup {<<>>}

\* the first line: the header skani writes, or a row like any other
RawHeaders ==
    {<<"Ref_file", "Query_file", "ANI", "Align_fraction_ref", "Align_fraction_query">>,
     <<"a", "b", "2.00", "0.0200", "0.0200">>}

RawFiles ==
    {<<>>} \cup
    UNION {{<<h>> \o rows : h \in RawHeaders, rows \in [1..n -> RawRows]} :
                n \in 0..MaxRawRows}

InitFormat ==
    /\ PipelineIdle
    /\ lengths = <<>>
    /\ pc = "format"
    /\ fastaLines = <<>>
    /\ lineNo = 0
    /\ seqId = NoId
    /\ seqChunks = <<>>
    /\ yielded = <<>>
    /\ rawLines \in RawFiles
    /\ rawPos = 0
    /\ formatted = <<>>
    /\ clusterTable = <<>>
    /\ repIds = <<>>

NextFormat == ReadHeader \/ FormatLine \/ EndOfRaw

SpecFormat == InitFormat /\ [][NextFormat]_vars

(***************************************************************************)
(* format_skani_output followed by load_ani_edges on the file it wrote, as *)
(* run_pipeline chains them, under any thresholds.                         *)
(***************************************************************************)
\* perform_clustering calls load_ani_edges on the normalized file
CallLoader ==
    /\ pc = "formatted"
    /\ pc' = "start"
    /\ UNCHANGED <<pipeline, lengths, texts>>

\* one iteration of the loop of load_ani_edges on the next row of the file
LoadFormattedRow ==
    /\ nread < Len(formatted)
    /\ LoadRow(formatted[nread + 1])

\* the normalized file is exhausted
EndOfFormatted ==
    /\ nread = Len(formatted)
    /\ EndOfFile

InitFidelity ==
    /\ inputDir = <<>>
    /\ missingTools = {}
    /\ stage = "direct"
    /\ raised = "none"
    /\ written = {}
    /\ combined = <<>>
    /\ lengths = [s \in Ids |-> 1]
    /\ \E t \in Thresholds : thr = [r \in Runs |-> t]
    /\ hashOrder = [r \in Runs |-> IdOrder]
    /\ edgeKeys = [r \in Runs |-> <<>>]
    /\ nread = 0
    /\ taken = [r \in Runs |-> <<>>]
    /\ qualifying = [r \in Runs |-> [p \in Pairs |-> 0]]
    /\ edges = [r \in Runs |-> <<>>]
    /\ pc = "format"
    /\ run = 1
    /\ seqsSorted = [r \in Runs |-> <<>>]
    /\ pos = [r \in Runs |-> 1]
    /\ unassigned = [r \in Runs |-> {}]
    /\ clusters = [r \in Runs |-> <<>>]
    /\ fastaLines = <<>>
    /\ lineNo = 0
    /\ seqId = NoId
    /\ seqChunks = <<>>
    /\ yielded = <<>>
    /\ rawLines \in RawFiles
    /\ rawPos = 0
    /\ formatted = <<>>
    /\ clusterTable = <<>>
    /\ repIds = <<>>

NextFidelity ==
    \/ ReadHeader \/ FormatLine \/ EndOfRaw
    \/ CallLoader \/ BeginLoad \/ LoadFormattedRow \/ EndOfFormatted

SpecFidelity == InitFidelity /\ [][NextFidelity]_vars

(***************************************************************************)
(* The clusters a run returned.                                            *)
(***************************************************************************)
\* the representatives of run r
Reps(r) == {clusters[r][i][1] : i \in 1..Len(clusters[r])}

\* the member list of the cluster keyed by x in run r
MembersOf(r, x) ==
    clusters[r][CHOOSE i \in 1..Len(clusters[r]) : clusters[r][i][1] = x][2]

\* all member lists of run r, one after the other
RECURSIVE Concat(_)
Concat(cl) == IF cl = <<>> THEN <<>> ELSE Head(cl)[2] \o Concat(Tail(cl))

AllMembers(r) == Concat(clusters[r])

(***************************************************************************)
(* Claims on greedy_star_clustering called on any mapping (SpecCluster).   *)
(***************************************************************************)
\* C1: partition.  When greedy_star_clustering has returned, every key of
\* the length mapping occurs exactly once in the member lists taken
\* together, and nothing but keys of the length mapping occurs in them,
\* whatever the adjacency mapping holds (duplicate entries, missing keys,
\* identifiers outside the length mapping).
C1_Partition ==
    pc = "done" =>
        /\ \A v \in DOMAIN lengths : Count(AllMembers(run), v) = 1
        /\ Range(AllMembers(run)) \subseteq DOMAIN lengths

\* C1 witness: a finished run on a mapping with a duplicated neighbour that
\* was claimed, and a key of the length mapping missing from the mapping.
C1_Witness ==
    /\ pc = "done"
    /\ \E s \in DOMAIN lengths : \E t \in DOMAIN lengths :
          /\ Count(EdgesGet(run, s), t) = 2
          /\ s \in Reps(run)
          /\ MembersOf(run, s) = <<s, t>>
    /\ \E v \in DOMAIN lengths : v \notin DOMAIN edges[run]

\* C10 as stated: a sequence whose adjacency entry is empty or missing is
\* the representative of the cluster made of itself alone, whatever the
\* other entries are.
C10_IsolatedAsStated ==
    pc = "done" =>
        \A v \in DOMAIN lengths :
            EdgesGet(run, v) = <<>> => <<v, <<v>>>> \in Range(clusters[run])

\* C10 amended: a sequence whose adjacency entry is empty or missing, and
\* which no other sequence of the length mapping lists as a neighbour, is
\* the representative of the cluster made of itself alone.
C10_IsolatedUnlisted ==
    pc = "done" =>
        \A v \in DOMAIN lengths :
            (/\ EdgesGet(run, v) = <<>>
             /\ \A u \in DOMAIN lengths : v \notin Range(EdgesGet(run, u)))
            => <<v, <<v>>>> \in Range(clusters[run])

\* C10 witness: the first sequence of the order has no entry and is listed
\* nowhere; it is a singleton while another cluster has two members.
C10_Witness ==
    /\ pc = "done"
    /\ Len(seqsSorted[run]) = 3
    /\ LET v == seqsSorted[run][1]
       IN /\ v \notin DOMAIN edges[run]
          /\ \A u \in DOMAIN lengths : v \notin Range(EdgesGet(run, u))
          /\ <<v, <<v>>>> \in Range(clusters[run])
    /\ \E x \in Reps(run) : Len(MembersOf(run, x)) = 2

(***************************************************************************)
(* Claims on load_ani_edges followed by greedy_star_clustering (SpecPipe). *)
(***************************************************************************)
\* every member of a cluster of run r but its representative is in the
\* adjacency list of the representative
OneHop(r) ==
    \A x \in Reps(r) : \A m \in Range(MembersOf(r, x)) \ {x} :
        m \in Range(EdgesGet(r, x))

\* a sequence that has edges, all of them to non-representative members of
\* a cluster, is not in that cluster
NoChaining(r) ==
    \A x \in Reps(r) : \A s \in DOMAIN lengths \ {x} :
        (/\ EdgesGet(r, s) # <<>>
         /\ Range(EdgesGet(r, s)) \subseteq Range(MembersOf(r, x)) \ {x})
        => s \notin Range(MembersOf(r, x))

\* lengths a > b > c and the edges a-b and b-c only
ChainInput(r) ==
    /\ lengths["a"] > lengths["b"]
    /\ lengths["b"] > lengths["c"]
    /\ Range(edges[r]["a"]) = {"b"}
    /\ Range(edges[r]["b"]) = {"a", "c"}
    /\ Range(edges[r]["c"]) = {"b"}

\* C2: one hop.  In the result of every finished run each non-
\* representative member is a direct neighbour of its representative, a
\* sequence linked only to non-representative members of a cluster is not
\* in it, and on the chain a-b, b-c with lengths a > b > c the clusters are
\* a:[a,b] and c:[c].
C2_OneHop ==
    \A r \in Runs :
        (pc = "done" /\ r <= run) =>
            /\ OneHop(r)
            /\ NoChaining(r)
            /\ ChainInput(r) =>
                  clusters[r] = << <<"a", <<"a", "b">>>>, <<"c", <<"c">>>> >>

\* C2 witness: the first run has finished on the chain.
C2_Witness ==
    /\ pc = "done"
    /\ run = 1
    /\ ChainInput(1)
    /\ clusters[1] = << <<"a", <<"a", "b">>>>, <<"c", <<"c">>>> >>

Precedes(y, x) == KeyLess(y, x)

\* C4 as stated: run 2 has thresholds at least those of run 1; every
\* sequence that is a representative in both runs has in run 2 no member
\* that it does not have in run 1, and both runs cluster the same
\* sequences.
C4_ClustersShrinkAsStated ==
    (pc = "done" /\ run = 2) =>
        /\ \A x \in Reps(1) \cap Reps(2) :
              Range(MembersOf(2, x)) \subseteq Range(MembersOf(1, x))
        /\ Range(AllMembers(1)) = Range(AllMembers(2))

\* C4 amended: every member that a representative of both runs has in run
\* 2 is a member of its cluster in run 1 or is, in run 1, a neighbour of it
\* that a representative preceding it in the total order claimed; both
\* runs cluster the same sequences.
C4_ClustersDrawFromNeighbours ==
    (pc = "done" /\ run = 2) =>
        /\ \A x \in Reps(1) \cap Reps(2) : \A m \in Range(MembersOf(2, x)) :
              \/ m \in Range(MembersOf(1, x))
              \/ /\ m \in Range(edges[1][x])
                 /\ \E y \in Reps(1) :
                       /\ Precedes(y, x)
                       /\ y # m
                       /\ m \in Range(MembersOf(1, y))
        /\ Range(AllMembers(1)) = Range(AllMembers(2))

\* C4 witness: under the higher thresholds a representative of both runs
\* has a member it does not have under the lower ones.
C4_Witness ==
    /\ pc = "done"
    /\ run = 2
    /\ thr[1] # thr[2]
    /\ \E x \in Reps(1) \cap Reps(2) :
          ~ (Range(MembersOf(2, x)) \subseteq Range(MembersOf(1, x)))

(***************************************************************************)
(* Claims on load_ani_edges (SpecLoad).                                    *)
(***************************************************************************)
\* C5: run 2 has thresholds at least those of run 1.  After any prefix of
\* the rows the two adjacency mappings have the same keys and every
\* neighbour list of run 2 is a sub-multiset of the list of run 1.
C5_EdgesShrink ==
    pc \in {"load", "loaded"} =>
        /\ DOMAIN edges[1] = DOMAIN edges[2]
        /\ \A s \in DOMAIN edges[2] : \A t \in AllIds :
              Count(edges[2][s], t) <= Count(edges[1][s], t)

\* C5 witness: the file is read, the thresholds differ, and a list has two
\* entries under the lower thresholds and one under the higher.
C5_Witness ==
    /\ pc = "loaded"
    /\ thr[1] # thr[2]
    /\ \E s \in ValidSet : Len(edges[1][s]) = 2 /\ Len(edges[2][s]) = 1

NamesOutside(parts) == ~ ({parts[1], parts[2]} \subseteq ValidSet)

\* C7: graph restricted to the vertex set.  After any prefix of the rows
\* the keys of the adjacency mapping are the identifiers of the vertex set
\* and every neighbour is one of them; a step that reads a row naming an
\* identifier outside the vertex set leaves the mapping as it was and the
\* loader reading.
C7_RestrictedToVertexSet ==
    /\ [](pc \in {"load", "loaded"} =>
            \A r \in Runs :
                /\ DOMAIN edges[r] = ValidSet
                /\ Range(edgeKeys[r]) = ValidSet
                /\ \A s \in ValidSet : Range(edges[r][s]) \subseteq ValidSet)
    /\ [][\/ (edges' = edges /\ pc' = "load")
          \/ ~ \E parts \in AllRows : NamesOutside(parts) /\ LoadRow(parts)]_vars

\* C7 witness: a row naming an outside identifier was read (it took the
\* branch of line 166), then a row that gave an edge.
C7_Witness ==
    /\ pc = "load"
    /\ "c" \notin ValidSet
    /\ taken[1] = <<"skipped", "edge">>
    /\ edges[1] = [s \in ValidSet |-> IF s = "a" THEN <<"b">> ELSE <<"a">>]

\* a row with fewer than NumFields fields, or whose identity or coverage
\* field float() rejects
Malformed(parts) ==
    \/ Len(parts) < NumFields
    \/ \E i \in 4..6 : parts[i] \notin Numerals

\* a row with fewer or more than NumFields fields, or whose identity or
\* coverage field float() rejects
MalformedAsStated(parts) ==
    \/ Len(parts) # NumFields
    \/ \E i \in 4..6 : parts[i] \notin Numerals

MalformedRows == {p \in AllRows : Malformed(p)}
MalformedRowsAsStated == {p \in AllRows : MalformedAsStated(p)}

\* C8 as stated: a step that reads a row with fewer or more than 6 fields,
\* or with a non-numeric identity or coverage field, leaves the mapping as
\* it was and the loader reading.
C8_MalformedDroppedAsStated ==
    [][\/ (edges' = edges /\ pc' = "load")
       \/ ~ \E parts \in MalformedRowsAsStated : LoadRow(parts)]_vars

\* C8 amended: a step that reads a row with fewer than 6 fields, or with a
\* non-numeric identity or coverage field among its first six, leaves the
\* mapping as it was and the loader reading, so that the rows after it are
\* processed as if it were absent.
C8_MalformedDropped ==
    [][\/ (edges' = edges /\ pc' = "load")
       \/ ~ \E parts \in MalformedRows : LoadRow(parts)]_vars

\* C8 witness: the first row was short or raised ValueError, and the row
\* after it gave an edge.
C8_Witness ==
    /\ pc = "load"
    /\ nread = 2
    /\ taken[1][1] \in {"short", "valueerror"}
    /\ taken[1][2] = "edge"
    /\ edges[1]["a"] = <<"b">>

(***************************************************************************)
(* Claims on run_pipeline (SpecRun).                                       *)
(***************************************************************************)
\* the input holds no sequence: no FASTA file, or files without a record
NoSequences == \A f \in DOMAIN inputDir : inputDir[f] = <<>>

\* C9: missing or empty input is fatal.  When the input holds no sequence,
\* the pipeline does not get to graph building or clustering, writes neither
\* the cluster table nor the list of representatives, and does not finish
\* without raising.
C9_EmptyInputFatal ==
    NoSequences =>
        /\ pc \in {"idle", "start"}
        /\ written \cap {"catalog_clusters.tsv", "representative_ids.txt"} = {}
        /\ stage # "finished"

(***************************************************************************)
(* Claims on parse_fasta and read_fasta_lengths (SpecFasta).               *)
(***************************************************************************)
\* the line without the whitespace before its first and after its last
\* character that is not whitespace
Stripped(line) ==
    LET S == {i \in 1..Len(line) : line[i] # Space}
    IN IF S = {} THEN <<>>
       ELSE SubSeq(line, CHOOSE i \in S : \A j \in S : i <= j,
                         CHOOSE i \in S : \A j \in S : j <= i)

\* the first character of the line is the marker
StartsWithMarker(line) == line # <<>> /\ line[1] = Marker

\* the first character of the line that is not whitespace is the marker
StartsWithMarkerStripped(line) == StartsWithMarker(Stripped(line))

\* the first whitespace-delimited token of a marker line, without the marker
TokenWithoutMarker(line) ==
    LET t == Stripped(line)
        e == CHOOSE i \in 1..Len(t) :
                 /\ \A j \in 1..i : t[j] # Space
                 /\ i = Len(t) \/ t[i + 1] = Space
    IN SubSeq(t, 2, e)

\* the stripped lines from..to of the file, joined
RECURSIVE JoinedLines(_, _)
JoinedLines(from, to) ==
    IF from > to THEN <<>>
    ELSE Stripped(fastaLines[from]) \o JoinedLines(from + 1, to)

\* the pairs of the file when IsMarker tells its marker lines: one pair per
\* marker line, in file order
PairsOfFile(IsMarker(_)) ==
    LET M == {i \in 1..Len(fastaLines) : IsMarker(fastaLines[i])}
        Nth(k) == CHOOSE i \in M : Cardinality({j \in M : j < i}) = k - 1
        End(k) == IF k = Cardinality(M) THEN Len(fastaLines) ELSE Nth(k + 1) - 1
    IN [k \in 1..Cardinality(M) |->
            <<TokenWithoutMarker(fastaLines[Nth(k)]), JoinedLines(Nth(k) + 1, End(k))>>]

\* the length mapping holds, for each identifier yielded, the sequence
\* length of the last pair carrying it
LastWins ==
    /\ DOMAIN lengths = {yielded[i][1] : i \in 1..Len(yielded)}
    /\ \A i \in 1..Len(yielded) :
          (\A j \in (i + 1)..Len(yielded) : yielded[j][1] # yielded[i][1])
          => lengths[yielded[i][1]] = Len(yielded[i][2])

\* C11 as stated: parse_fasta yields one pair per line whose first
\* character is '>', in file order: the first whitespace-delimited token
\* without the '>' and the concatenation of the stripped lines up to the
\* next such line; read_fasta_lengths keeps the length of the last pair of
\* each identifier.
C11_ReaderAsStated ==
    /\ pc \in {"parsed", "lengths"} => yielded = PairsOfFile(StartsWithMarker)
    /\ pc = "lengths" => LastWins

\* C11 amended: the marker lines are the lines whose first character that is
\* not whitespace is '>', that is the lines that start with '>' once
\* stripped; the rest as stated.
C11_Reader ==
    /\ pc \in {"parsed", "lengths"} => yielded = PairsOfFile(StartsWithMarkerStripped)
    /\ pc = "lengths" => LastWins

\* C11 witness: a file with an indented marker line whose two records carry
\* the same identifier with sequences of different lengths; the mapping
\* holds the length of the second.
C11_Witness ==
    /\ pc = "lengths"
    /\ \E i \in 1..Len(fastaLines) :
          /\ StartsWithMarkerStripped(fastaLines[i])
          /\ ~ StartsWithMarker(fastaLines[i])
    /\ Len(yielded) = 2
    /\ yielded[1][1] = yielded[2][1]
    /\ Len(yielded[1][2]) # Len(yielded[2][2])
    /\ lengths[yielded[2][1]] = Len(yielded[2][2])

(***************************************************************************)
(* Claims on format_skani_output (SpecFormat).                             *)
(***************************************************************************)
\* the row has at least 5 fields and its fields 3 to 5 are numeric
WellFormedRaw(parts) ==
    /\ Len(parts) >= 5
    /\ \A i \in 3..5 : parts[i] \in DOMAIN RawFloatOf

\* the normalized row of a well-formed raw row: source, target, 1, the
\* identity and the two fractions times 100, each with two decimal digits
Normalized(parts) ==
    <<parts[1], parts[2], "1",
      FormatF2(RawFloatOf[parts[3]]),
      FormatF2(100 * RawFloatOf[parts[4]]),
      FormatF2(100 * RawFloatOf[parts[5]])>>

\* the normalized rows of the well-formed rows among lines from.. of the
\* input, in input order
RECURSIVE NormalizedFrom(_)
NormalizedFrom(from) ==
    IF from > Len(rawLines) THEN <<>>
    ELSE (IF WellFormedRaw(rawLines[from]) THEN <<Normalized(rawLines[from])>> ELSE <<>>)
         \o NormalizedFrom(from + 1)

\* C12: normalizer.  When format_skani_output has returned, the output
\* holds, in input order, one 6-field row (source, target, 1, identity,
\* query fraction x 100, target fraction x 100, the numbers with two decimal
\* digits) for every line after the first that has at least 5 fields with
\* numeric fields 3 to 5, and nothing else; so no malformed row stops the
\* rows after it.  A fraction 0.0200 is written as 2.00.
C12_Normalizer ==
    pc = "formatted" =>
        /\ formatted = NormalizedFrom(2)
        /\ \A i \in 1..Len(formatted) : Len(formatted[i]) = 6
        /\ \A i \in 2..Len(rawLines) :
              (WellFormedRaw(rawLines[i]) /\ rawLines[i][4] = "0.0200")
              => \E j \in 1..Len(formatted) : formatted[j][5] = "2.00"

\* C12 witness: the first line is a row that is not written, the second a
\* malformed row, the third a row with the fraction 0.0200, written with
\* 2.00 as the only row of the output.
C12_Witness ==
    /\ pc = "formatted"
    /\ Len(rawLines) = 3
    /\ WellFormedRaw(rawLines[1])
    /\ rawLines[2] # <<>>
    /\ ~ WellFormedRaw(rawLines[2])
    /\ WellFormedRaw(rawLines[3])
    /\ rawLines[3][4] = "0.0200"
    /\ Len(formatted) = 1
    /\ formatted[1][5] = "2.00"

(***************************************************************************)
(* Claims on the clusters and the files written from them (SpecWrite).     *)
(***************************************************************************)
\* C13: output order.  The clusters are discovered, and returned, in the
\* total order of their representatives (length descending, then identifier
\* ascending); write_clusters writes the header and then one row per cluster
\* in that order, and line i of write_representative_ids is the
\* representative of cluster row i, every representative once.
C13_OutputOrder ==
    /\ pc \in {"cluster", "done"} =>
          \A i \in 1..Len(clusters[run]) : \A j \in (i + 1)..Len(clusters[run]) :
              Precedes(clusters[run][i][1], clusters[run][j][1])
    /\ "catalog_clusters.tsv" \in written =>
          /\ Len(clusterTable) = Len(clusters[run]) + 1
          /\ clusterTable[1] = <<"representative", "members">>
          /\ \A i \in 1..Len(clusters[run]) : clusterTable[i + 1] = clusters[run][i]
    /\ "representative_ids.txt" \in written =>
          /\ Len(repIds) = Len(clusterTable) - 1
          /\ \A i \in 1..Len(repIds) : repIds[i] = clusterTable[i + 1][1]
          /\ \A x \in Reps(run) : Count(repIds, x) = 1

\* C13 witness: both files are written for three clusters whose order is
\* not the order of the identifiers.
C13_Witness ==
    /\ "representative_ids.txt" \in written
    /\ Len(repIds) = 3
    /\ IdLess(repIds[2], repIds[1])
    /\ lengths[repIds[2]] = lengths[repIds[3]]

(***************************************************************************)
(* Claims on two calls of greedy_star_clustering (SpecParallel).           *)
(***************************************************************************)
\* the two adjacency mappings give every sequence the same set of
\* neighbours
SameNeighbours ==
    \A s \in DOMAIN lengths : Range(EdgesGet(1, s)) = Range(EdgesGet(2, s))

\* C14: parallel edges are harmless.  Two calls of greedy_star_clustering
\* on the same lengths and on adjacency mappings with the same set of
\* neighbours per vertex return the same clusters, in the same order and
\* with the same member order, whatever the order and the multiplicity of
\* the neighbour entries.
C14_ParallelEdgesHarmless ==
    (pc = "done" /\ run = 2 /\ SameNeighbours) => clusters[1] = clusters[2]

\* C14 witness: both calls have returned; a representative with two
\* members besides itself has its neighbours listed in another order in the
\* second mapping, or one of them listed twice.
C14_Witness ==
    /\ pc = "done"
    /\ run = 2
    /\ SameNeighbours
    /\ \E x \in Reps(2) :
          /\ Len(MembersOf(2, x)) = 3
          /\ edges[1][x] # edges[2][x]

(***************************************************************************)
(* Further claims on greedy_star_clustering called on any mapping          *)
(* (SpecCluster).                                                          *)
(***************************************************************************)
\* C15: member order.  In every cluster formed the representative is the
\* first member and the member list is strictly increasing in the total
\* order (length descending, then identifier ascending); so no member is
\* longer than the representative, and a member as long as the
\* representative has a greater identifier.
C15_MemberOrder ==
    pc \in {"cluster", "done"} =>
        \A c \in 1..Len(clusters[run]) :
            LET x == clusters[run][c][1]
                m == clusters[run][c][2]
            IN /\ m # <<>>
               /\ m[1] = x
               /\ \A i \in 1..Len(m) : \A j \in (i + 1)..Len(m) : Precedes(m[i], m[j])
               /\ \A i \in 2..Len(m) :
                     /\ lengths[x] >= lengths[m[i]]
                     /\ lengths[x] = lengths[m[i]] => IdLess(x, m[i])

\* C15 witness: a returned cluster of three members, the second longer
\* than the third and listed after it in the adjacency of the
\* representative, which has the length of the second and not the greatest
\* identifier.
C15_Witness ==
    /\ pc = "done"
    /\ \E c \in 1..Len(clusters[run]) :
          LET x == clusters[run][c][1]
              m == clusters[run][c][2]
          IN /\ Len(m) = 3
             /\ lengths[m[2]] > lengths[m[3]]
             /\ lengths[x] = lengths[m[2]]
             /\ IdLess(m[3], m[2])
             /\ edges[run][x] = <<m[3], m[2]>>

(***************************************************************************)
(* Further claims on load_ani_edges followed by greedy_star_clustering     *)
(* (SpecPipe).                                                             *)
(***************************************************************************)
\* the adjacency mapping of run r is symmetric
Symmetric(r) ==
    \A s \in DOMAIN edges[r] : \A t \in Range(edges[r][s]) :
        t \in DOMAIN edges[r] /\ s \in Range(edges[r][t])

\* C16: representatives are pairwise non-adjacent.  On the symmetric
\* adjacency mapping load_ani_edges builds, no representative of a finished
\* run is in the neighbour list of another, and every sequence is a
\* representative or a neighbour of a representative that precedes it in
\* the total order.
C16_RepsNotAdjacent ==
    \A r \in Runs :
        (pc = "done" /\ r <= run /\ Symmetric(r)) =>
            /\ \A x \in Reps(r) : \A y \in Reps(r) : y \notin Range(edges[r][x])
            /\ \A s \in DOMAIN lengths :
                  \/ s \in Reps(r)
                  \/ \E x \in Reps(r) : Precedes(x, s) /\ x \in Range(edges[r][s])

\* C16 witness: the first run has returned two representatives that have a
\* neighbour in common, on a symmetric mapping.
C16_Witness ==
    /\ pc = "done"
    /\ run = 1
    /\ Symmetric(1)
    /\ \E x \in Reps(1) : \E y \in Reps(1) \ {x} :
          Range(edges[1][x]) \cap Range(edges[1][y]) # {}

(***************************************************************************)
(* Claims on format_skani_output followed by load_ani_edges                *)
(* (SpecFidelity).                                                         *)
(***************************************************************************)
\* line i of the raw file is a well-formed row between two distinct
\* identifiers of the vertex set
RawEdgeRow(i) ==
    /\ WellFormedRaw(rawLines[i])
    /\ rawLines[i][1] # rawLines[i][2]
    /\ {rawLines[i][1], rawLines[i][2]} \subseteq ValidSet

\* the number of the normalized row of line i of the raw file
FormattedIndex(i) == Cardinality({k \in 2..i : WellFormedRaw(rawLines[k])})

\* identity, query fraction x 100 and target fraction x 100 of a raw row, in
\* units of 0.00001
RawValues(parts) ==
    <<RawFloatOf[parts[3]], 100 * RawFloatOf[parts[4]], 100 * RawFloatOf[parts[5]]>>

\* the raw, unrounded values of the row meet the thresholds of run r
RawMeets(r, parts) ==
    \A k \in 1..3 : RawValues(parts)[k] >= thr[r][k] * Unit

\* the values of the row, rounded to two decimal digits, meet the
\* thresholds of run r
RoundedMeets(r, parts) ==
    \A k \in 1..3 : RoundedHundredths(RawValues(parts)[k]) * Hundredth >= thr[r][k] * Unit

====
